---- MODULE Spec2Model ----
(***************************************************************************)
(* A model of the Arduino telemetry relay (src/main.py): the serial        *)
(* ingestion task, the websocket handlers, the joystick button endpoint    *)
(* and the broadcast fan-out over the shared set active_connections.       *)
(*                                                                         *)
(* All coroutines run on one asyncio event loop: a task runs without       *)
(* interruption from one await to the next.  Every action below is one     *)
(* such run, except for the ingestion task, whose run is cut into the      *)
(* steps poll/read; while it is in the middle of a run (OnCpu) no other    *)
(* task may take a step.                                                   *)
(*                                                                         *)
(* active_connections is a Python set of WebSocket objects, which hash by  *)
(* identity.  broadcast iterates over the live set across awaits, so the   *)
(* set is modelled as the interpreter keeps it: an open-addressing table   *)
(* of slots, with the iterator holding a slot position and the size the    *)
(* set had when the iteration began.                                       *)
(***************************************************************************)
EXTENDS Integers, Sequences, FiniteSets, TLC

\* ---------------------------------------------------------------- bounds

\* Websocket connections that may ever be opened: in the full system (Spec),
\* with the button endpoint alone (SpecButton), with the ingestion task alone
\* (SpecIngest), and in the churn of connections around one button request
\* (SpecHub).
MaxConns == 2
MaxButtonConns == 3
MaxIngestConns == 2
MaxHubConns == 5
\* Lines the serial device delivers before it falls silent.
MaxLines == 2
\* Connections in the specification of the line codec.
MaxCodecConns == 1
\* Button requests submitted over HTTP.
MaxButtons == 1
\* Iterations of the joystick reader's polling loop.
MaxPolls == 10

MaxOf(a, b) == IF a >= b THEN a ELSE b

Conns == 1 .. MaxConns
ButtonConns == 1 .. MaxButtonConns
IngestConns == 1 .. MaxIngestConns
HubConns == 1 .. MaxHubConns
CodecConns == 1 .. MaxCodecConns
AllConns ==
    1 .. MaxOf(MaxOf(MaxConns, MaxButtonConns),
               MaxOf(MaxOf(MaxIngestConns, MaxHubConns), MaxCodecConns))

\* The two callers of broadcast: read_arduino_data and joystick_button_pressed.
Callers == {"ingest", "button"}

\* ------------------------------------------------- the set of connections

\* A slot of the table holds a connection (> 0), NULL (never used) or the
\* dummy left behind by a removal.
NULL == 0
DUMMY == -1

\* The interpreter's set parameters.
PySet_MINSIZE == 8
LINEAR_PROBES == 9
PERTURB_SHIFT == 5

Pow2(n) == 2 ^ n

\* id()-based hashes a connection object may get: its address is arbitrary,
\* the model draws it from two values per connection.  Low bits may collide
\* between connections (8 and 0, 9 and 1).
HashOf(c) == {c - 1, 8 + (c % 2)}

\* active_connections = set()
EmptySet == [i \in 1 .. PySet_MINSIZE |-> NULL]

Mask(t) == Len(t) - 1
Slot(t, i) == t[i + 1]
Used(t) == Cardinality({i \in 1 .. Len(t) : t[i] > 0})
Fill(t) == Cardinality({i \in 1 .. Len(t) : t[i] # NULL})
Members(t) == {t[i] : i \in 1 .. Len(t)} \ {NULL, DUMMY}

\* The last slot of the linear run that starts at slot i.
RunEnd(t, i) == IF i + LINEAR_PROBES <= Mask(t) THEN i + LINEAR_PROBES ELSE i

\* The next start of a probe run: i = (i * 5 + 1 + perturb) & mask.
NextProbe(t, i, perturb) == (i * 5 + 1 + perturb) % Len(t)

\* set_lookkey: the slot holding key, or the unused slot that ends its probe
\* sequence.  h is the hash of the key; j runs over the slots i .. RunEnd.
RECURSIVE LookKey(_, _, _, _, _)
LookKey(t, key, i, j, perturb) ==
    IF Slot(t, j) = NULL \/ Slot(t, j) = key
      THEN j
      ELSE IF j < RunEnd(t, i)
        THEN LookKey(t, key, i, j + 1, perturb)
        ELSE LET p == perturb \div Pow2(PERTURB_SHIFT)
                 n == NextProbe(t, i, p)
             IN  LookKey(t, key, n, n, p)

\* set_add_entry's search: as LookKey, remembering the last dummy passed, which
\* the new key then takes instead of the unused slot.
RECURSIVE AddSlot(_, _, _, _, _, _)
AddSlot(t, key, i, j, perturb, free) ==
    IF Slot(t, j) = NULL
      THEN [slot |-> IF free >= 0 THEN free ELSE j, fresh |-> free < 0, found |-> FALSE]
      ELSE IF Slot(t, j) = key
        THEN [slot |-> j, fresh |-> FALSE, found |-> TRUE]
        ELSE LET f == IF Slot(t, j) = DUMMY THEN j ELSE free
             IN  IF j < RunEnd(t, i)
                   THEN AddSlot(t, key, i, j + 1, perturb, f)
                   ELSE LET p == perturb \div Pow2(PERTURB_SHIFT)
                            n == NextProbe(t, i, p)
                        IN  AddSlot(t, key, n, n, p, f)

\* set_insert_clean: the first NULL slot of the key's probe sequence in a table
\* without dummies.
RECURSIVE CleanSlot(_, _, _, _)
CleanSlot(t, i, j, perturb) ==
    IF Slot(t, j) = NULL
      THEN j
      ELSE IF j < RunEnd(t, i)
        THEN CleanSlot(t, i, j + 1, perturb)
        ELSE LET p == perturb \div Pow2(PERTURB_SHIFT)
                 n == NextProbe(t, i, p)
             IN  CleanSlot(t, n, n, p)

\* The table size set_table_resize picks: the least power of two above minused,
\* starting at PySet_MINSIZE.
RECURSIVE NewSize(_, _)
NewSize(size, minused) == IF size <= minused THEN NewSize(size * 2, minused) ELSE size

\* set_table_resize: a new table, the keys of the old one inserted in slot order.
RECURSIVE Reinsert(_, _, _, _)
Reinsert(old, h, k, new) ==
    IF k > Len(old)
      THEN new
      ELSE IF old[k] > 0
        THEN LET home == h[old[k]] % Len(new)
                 s == CleanSlot(new, home, home, h[old[k]])
             IN  Reinsert(old, h, k + 1, [new EXCEPT ![s + 1] = old[k]])
        ELSE Reinsert(old, h, k + 1, new)

Resize(t, h, minused) ==
    Reinsert(t, h, 1, [i \in 1 .. NewSize(PySet_MINSIZE, minused) |-> NULL])

\* active_connections.add(websocket)
SetAdd(t, h, c) ==
    LET home == h[c] % Len(t)
        r == AddSlot(t, c, home, home, h[c], -1)
        t1 == [t EXCEPT ![r.slot + 1] = c]
    IN  IF r.found
          THEN t
          ELSE IF r.fresh /\ Fill(t1) * 5 >= Mask(t1) * 3
            THEN Resize(t1, h, Used(t1) * 4)
            ELSE t1

\* Whether websocket is a member: remove() raises KeyError when it is not.
SetHas(t, c) == c \in Members(t)

\* The table after discarding one key (set_discard_entry): its slot becomes a dummy.
Discard(t, h, c) ==
    LET home == h[c] % Len(t)
        s == LookKey(t, c, home, home, h[c])
    IN  IF Slot(t, s) = c THEN [t EXCEPT ![s + 1] = DUMMY] ELSE t

\* active_connections.remove(websocket), for a member.
SetRemove(t, h, c) == Discard(t, h, c)

RECURSIVE DiscardAll(_, _, _)
DiscardAll(t, h, S) ==
    IF S = {}
      THEN t
      ELSE LET c == CHOOSE x \in S : TRUE
           IN  DiscardAll(Discard(t, h, c), h, S \ {c})

\* active_connections.difference_update(disconnected): discards every key of
\* disconnected, then rebuilds the table when more than a quarter of the slots
\* are dummies.
SetDifferenceUpdate(t, h, S) ==
    LET t1 == DiscardAll(t, h, S)
    IN  IF Fill(t1) - Used(t1) <= Mask(t1) \div 4
          THEN t1
          ELSE Resize(t1, h, Used(t1) * 4)

\* The slots at or after pos that hold a connection.
LiveFrom(t, pos) == {i \in pos .. Mask(t) : Slot(t, i) > 0}

Least(S) == CHOOSE x \in S : \A y \in S : x <= y

\* One step of `for connection in active_connections`: the iterator raises
\* RuntimeError when the set's size differs from the size it had when the
\* iteration began, and otherwise yields the next occupied slot from pos on.
SetIterNext(t, pos, used) ==
    IF used # Used(t)
      THEN [kind |-> "error", key |-> NULL, pos |-> pos]
      ELSE IF LiveFrom(t, pos) = {}
        THEN [kind |-> "stop", key |-> NULL, pos |-> pos]
        ELSE LET i == Least(LiveFrom(t, pos))
             IN  [kind |-> "item", key |-> Slot(t, i), pos |-> i + 1]

\* ------------------------------------------------------ the device locator

\* ARDUINO_UNO_IDS, as (vid, pid) pairs: 0x2341:0x0043, 0x2341:0x0001,
\* 0x2A03:0x0043, 0x1A86:0x7523.
ARDUINO_UNO_IDS == {<<9025, 67>>, <<9025, 1>>, <<10755, 67>>, <<6790, 29987>>}

\* A port without USB identifiers has vid = pid = None.
None == -1

\* The port lists comports() may return.
PortLists ==
    { <<>>,
      << [device |-> "ttyS0", vid |-> None, pid |-> None],
         [device |-> "ttyUSB0", vid |-> 1027, pid |-> 24577] >>,
      << [device |-> "ttyS0", vid |-> None, pid |-> None],
         [device |-> "ttyUSB1", vid |-> 6790, pid |-> 29987],
         [device |-> "ttyACM0", vid |-> 9025, pid |-> 67] >> }

\* find_arduino_port: the device of the first port whose (vid, pid) is known,
\* "" (None) when there is none.
RECURSIVE FindFrom(_, _)
FindFrom(ports, k) ==
    IF k > Len(ports)
      THEN ""
      ELSE IF ports[k].vid # None /\ ports[k].pid # None
              /\ <<ports[k].vid, ports[k].pid>> \in ARDUINO_UNO_IDS
        THEN ports[k].device
        ELSE FindFrom(ports, k + 1)

find_arduino_port(ports) == FindFrom(ports, 1)

\* ------------------------------------------------------------ the line codec

\* A raw line is a sequence of tokens: punctuation, literals, quoted keys,
\* whitespace, and "\\xff" for a byte that is not valid UTF-8.
Whitespace == {" ", "\\n", "\\r"}
InvalidBytes == {"\\xff"}
NumberTokens == {"21.3", "22.5", "100", "5", "0"}
LiteralTokens == {"true", "false", "null"}
StringTokens == {"temperature_c", "humidity", "brightness", "sound", "intruder",
                 "fire", "extra"}

\* raw_line.decode('utf-8', errors='ignore'): invalid bytes are dropped.
RECURSIVE DecodeUtf8(_)
DecodeUtf8(raw) ==
    IF raw = <<>>
      THEN <<>>
      ELSE IF Head(raw) \in InvalidBytes
        THEN DecodeUtf8(Tail(raw))
        ELSE <<Head(raw)>> \o DecodeUtf8(Tail(raw))

RECURSIVE LStrip(_)
LStrip(s) == IF s # <<>> /\ Head(s) \in Whitespace THEN LStrip(Tail(s)) ELSE s

RECURSIVE RStrip(_)
RStrip(s) ==
    IF s # <<>> /\ s[Len(s)] \in Whitespace THEN RStrip(SubSeq(s, 1, Len(s) - 1)) ELSE s

\* str.strip()
Strip(s) == RStrip(LStrip(s))

\* line.replace(':nan,', ':null,').replace(':nan}', ':null}'): nan becomes null
\* where it stands directly between ':' and ',' or '}'.
FixNan(s) ==
    [k \in 1 .. Len(s) |->
        IF s[k] = "nan" /\ k > 1 /\ k < Len(s) /\ s[k - 1] = ":" /\ s[k + 1] \in {",", "}"}
          THEN "null"
          ELSE s[k]]

\* Parsed JSON values: scalars carry their literal, objects their members in
\* the order of the text.
Scalar(kind, lit) == [k |-> kind, s |-> lit, m |-> <<>>]
Object(members) == [k |-> "obj", s |-> "", m |-> members]
JsonNull == Scalar("null", "null")
JsonFalse == Scalar("bool", "false")
Failure == [ok |-> FALSE, val |-> JsonNull, next |-> 0]

RECURSIVE SkipWs(_, _)
SkipWs(s, i) == IF i <= Len(s) /\ s[i] \in Whitespace THEN SkipWs(s, i + 1) ELSE i

\* json's scanner: the value that starts at token i (after whitespace), and the
\* position after it.  Members of an object are parsed by ParseMembers.
RECURSIVE ParseValue(_, _)
RECURSIVE ParseMembers(_, _, _)
ParseValue(s, i0) ==
    LET i == SkipWs(s, i0)
    IN  IF i > Len(s)
          THEN Failure
          ELSE IF s[i] \in NumberTokens
            THEN [ok |-> TRUE, val |-> Scalar("num", s[i]), next |-> i + 1]
          ELSE IF s[i] \in {"true", "false"}
            THEN [ok |-> TRUE, val |-> Scalar("bool", s[i]), next |-> i + 1]
          ELSE IF s[i] = "null"
            THEN [ok |-> TRUE, val |-> JsonNull, next |-> i + 1]
          ELSE IF s[i] \in StringTokens
            THEN [ok |-> TRUE, val |-> Scalar("str", s[i]), next |-> i + 1]
          ELSE IF s[i] = "{"
            THEN LET j == SkipWs(s, i + 1)
                 IN  IF j <= Len(s) /\ s[j] = "}"
                       THEN [ok |-> TRUE, val |-> Object(<<>>), next |-> j + 1]
                       ELSE ParseMembers(s, j, <<>>)
          ELSE Failure

\* The members of an object from token i on: "key" : value, separated by ','
\* and closed by '}'.
ParseMembers(s, i0, acc) ==
    LET i == SkipWs(s, i0)
    IN  IF i > Len(s) \/ s[i] \notin StringTokens
          THEN Failure
          ELSE LET c == SkipWs(s, i + 1)
               IN  IF c > Len(s) \/ s[c] # ":"
                     THEN Failure
                     ELSE LET v == ParseValue(s, c + 1)
                          IN  IF ~v.ok
                                THEN Failure
                                ELSE LET e == SkipWs(s, v.next)
                                         acc1 == Append(acc, [key |-> s[i], val |-> v.val])
                                     IN  IF e > Len(s)
                                           THEN Failure
                                           ELSE IF s[e] = "}"
                                             THEN [ok |-> TRUE, val |-> Object(acc1),
                                                   next |-> e + 1]
                                           ELSE IF s[e] = ","
                                             THEN ParseMembers(s, e + 1, acc1)
                                           ELSE Failure

\* json.loads: one value, then only whitespace; anything else is a
\* JSONDecodeError.
JsonLoads(s) ==
    LET v == ParseValue(s, 1)
    IN  IF v.ok /\ SkipWs(s, v.next) > Len(s) THEN v ELSE Failure

\* dict.get(key, default): the last member with that key wins.
RECURSIVE GetFrom(_, _, _, _)
GetFrom(members, key, default, k) ==
    IF k = 0
      THEN default
      ELSE IF members[k].key = key THEN members[k].val ELSE GetFrom(members, key, default, k - 1)

Get(obj, key, default) == GetFrom(obj.m, key, default, Len(obj.m))

\* filtered_data: the six fields picked from the parsed object.
FilteredData(data) ==
    [temperature_c |-> Get(data, "temperature_c", JsonNull),
     humidity |-> Get(data, "humidity", JsonNull),
     brightness |-> Get(data, "brightness", JsonNull),
     sound |-> Get(data, "sound", JsonNull),
     intruder |-> Get(data, "intruder", JsonFalse),
     fire |-> Get(data, "fire", JsonFalse)]

\* What the body of the inner try does with one raw line: "empty" (continue),
\* "JSONDecodeError", "AttributeError" (the parsed value has no .get), or "ok"
\* with the record to broadcast.
ProcessLine(raw) ==
    LET line == Strip(DecodeUtf8(raw))
        parsed == JsonLoads(FixNan(line))
    IN  IF line = <<>>
          THEN [kind |-> "empty", data |-> JsonNull]
          ELSE IF ~parsed.ok
            THEN [kind |-> "JSONDecodeError", data |-> JsonNull]
          ELSE IF parsed.val.k # "obj"
            THEN [kind |-> "AttributeError", data |-> JsonNull]
          ELSE [kind |-> "ok", data |-> FilteredData(parsed.val)]

\* The lines the device may send.
Lines ==
    { <<" ", "\\n">>,
      <<"{", "not", "json", "\\n">>,
      <<"5", "\\n">>,
      <<"{", "temperature_c", ":", "21.3", ",", "humidity", ":", "nan", "}", "\\n">> }

\* Lines of one or two members, for the codec: keys inside and outside the
\* record, and as values a number, nan (written with and without a blank after
\* the colon), null, a boolean and a string.
CodecKeys == {"temperature_c", "intruder", "extra"}
CodecValues == {<<"21.3">>, <<"nan">>, <<" ", "nan">>, <<"null">>, <<"true">>, <<"extra">>}
CodecMembers == {<<k, ":">> \o v : k \in CodecKeys, v \in CodecValues}
CodecLines ==
    Lines
    \cup {<<"{">> \o m \o <<"}", "\\n">> : m \in CodecMembers}
    \cup {<<"{">> \o m[1] \o <<",">> \o m[2] \o <<"}", "\\n">> :
             m \in CodecMembers \X CodecMembers}

\* ------------------------------------------------------------------ state

VARIABLES
    table,       \* active_connections, as the interpreter's slot table
    hash,        \* the hash stored with each member of the set (0: not a member)
    ws,          \* where each websocket_endpoint coroutine stands
    ipc,         \* where read_arduino_data stands
    device,      \* serial_port, "" for None
    linesRead,   \* line_count
    resp,        \* the response to the latest button request
    nSubmitted,  \* button requests submitted so far
    bst,         \* per caller: "idle", or "sending" (suspended in send_json)
    bcur,        \* per caller: the connection of the pending send
    bpos,        \* per caller: the set iterator's slot position
    bused,       \* per caller: the set's size when the iteration began
    bdisc,       \* per caller: disconnected (kept after the pass as its record)
    bdata,       \* per caller: data
    \* History of the run, read by the properties only.
    faulted,     \* an I/O fault was raised on the open serial connection
    lastKind,    \* what became of the last line read
    prevKind,    \* what became of the line read before it
    nTelemetry,  \* calls of broadcast made by the ingestion task
    lastRaw,     \* the last line read, as readline returned it
    bsnap,       \* per caller: the members of the set when the pass began
    batt,        \* per caller: send_json calls of the pass, per connection
    bmut,        \* per caller: another task changed the set during the pass
    bres,        \* per caller: how its latest pass stands: "none", "running",
                 \* "return" or "raise"
    failedDone,  \* connections whose send failed in a pass that has ended
    \* The joystick reader (a process of its own).
    jpc,             \* where main stands: "setup", "loop" or "done"
    last_state,      \* last_state
    button_pressed,  \* button_pressed
    jpost,           \* what became of the last POST of send_button_press
    \* History of the joystick reader, read by the properties only.
    jpolls,          \* iterations of the polling loop so far
    jsent            \* calls of send_button_press so far

connVars == <<ws, hash>>
ingestVars == <<ipc, device, linesRead, faulted, lastKind, prevKind, nTelemetry, lastRaw>>
buttonVars == <<resp, nSubmitted>>
passVars == <<bst, bcur, bpos, bused, bdisc, bdata, bsnap, batt, bmut, bres, failedDone>>
joyVars == <<jpc, last_state, button_pressed, jpost, jpolls, jsent>>
vars == <<table, connVars, ingestVars, buttonVars, passVars, joyVars>>

NoData == [none |-> TRUE]
NoAttempts == [c \in AllConns |-> 0]

Init ==
    /\ table = EmptySet
    /\ hash = [c \in AllConns |-> 0]
    /\ ws = [c \in AllConns |-> "new"]
    /\ ipc = "start"
    /\ device = ""
    /\ linesRead = 0
    /\ resp = "none"
    /\ nSubmitted = 0
    /\ bst = [k \in Callers |-> "idle"]
    /\ bcur = [k \in Callers |-> NULL]
    /\ bpos = [k \in Callers |-> 0]
    /\ bused = [k \in Callers |-> 0]
    /\ bdisc = [k \in Callers |-> {}]
    /\ bdata = [k \in Callers |-> NoData]
    /\ faulted = FALSE
    /\ lastKind = "none"
    /\ prevKind = "none"
    /\ nTelemetry = 0
    /\ lastRaw = <<>>
    /\ bsnap = [k \in Callers |-> {}]
    /\ batt = [k \in Callers |-> NoAttempts]
    /\ bmut = [k \in Callers |-> FALSE]
    /\ bres = [k \in Callers |-> "none"]
    /\ failedDone = {}
    /\ jpc = "setup"
    /\ last_state = 1
    /\ button_pressed = FALSE
    /\ jpost = "none"
    /\ jpolls = 0
    /\ jsent = 0

\* The ingestion task is in the middle of a run (between two awaits): no other
\* task is scheduled.
OnCpu == ipc \in {"poll", "read"}

\* -------------------------------------------------------------- broadcast

\* The for loop of broadcast from one call of the iterator on: it suspends in
\* the send to the next connection, or the iterator raises RuntimeError out of
\* broadcast, or the loop ends, the failed connections are pruned and
\* broadcast returns.
BroadcastStep(t, h, pos, used, disc) ==
    LET r == SetIterNext(t, pos, used)
    IN  CASE r.kind = "item" ->
               [kind |-> "send", key |-> r.key, pos |-> r.pos, disc |-> disc, table |-> t]
          [] r.kind = "error" ->
               [kind |-> "raise", key |-> NULL, pos |-> r.pos, disc |-> disc, table |-> t]
          [] r.kind = "stop" ->
               [kind |-> "return", key |-> NULL, pos |-> r.pos, disc |-> disc,
                table |-> IF disc # {} THEN SetDifferenceUpdate(t, h, disc) ELSE t]

\* broadcast is called: disconnected = set(), the iteration begins.
BroadcastBegin(t, h) == BroadcastStep(t, h, 0, Used(t), {})

\* A send that raises escapes broadcast (no try around the send).
ResumeUncaught(t, h, pos, used, disc, c, ok) ==
    IF ok
      THEN BroadcastStep(t, h, pos, used, disc)
      ELSE [kind |-> "raise", key |-> NULL, pos |-> pos, disc |-> disc, table |-> t]

\* The pending send_json to c ends: a failure is caught and c is added to
\* disconnected; either way the loop goes on.
BroadcastResume(t, h, pos, used, disc, c, ok) ==
    BroadcastStep(t, h, pos, used, IF ok THEN disc ELSE disc \cup {c})

\* Another task changed the set: every pass in flight has seen a mutation.
Mutated == [j \in Callers |-> bmut[j] \/ bst[j] = "sending"]

\* The hashes kept with the members of t: a connection that left the set has
\* none.
Kept(t, h) == [c \in AllConns |-> IF c \in Members(t) THEN h[c] ELSE 0]

\* The pass of caller k moves to the state r; begin tells a new pass from the
\* continuation of a suspended one.  When the pass ends its iterator and data
\* are gone; what it did stays on record until the caller's next pass.
Advance(k, r, begin, data) ==
    LET att == IF begin THEN NoAttempts ELSE batt[k]
        ended == r.kind # "send"
        pruned == r.kind = "return" /\ r.disc # {}
    IN  /\ table' = r.table
        /\ hash' = Kept(r.table, hash)
        /\ bst' = [bst EXCEPT ![k] = IF ended THEN "idle" ELSE "sending"]
        /\ bcur' = [bcur EXCEPT ![k] = r.key]
        /\ bpos' = [bpos EXCEPT ![k] = IF ended THEN 0 ELSE r.pos]
        /\ bused' = [bused EXCEPT ![k] = IF ended THEN 0 ELSE IF begin THEN Used(table) ELSE @]
        /\ bdisc' = [bdisc EXCEPT ![k] = r.disc]
        /\ bdata' = [bdata EXCEPT ![k] = IF ended THEN NoData ELSE data]
        /\ bsnap' = [bsnap EXCEPT ![k] =
                       IF begin THEN Members(table) ELSE @]
        /\ batt' = [batt EXCEPT ![k] =
                      IF ended THEN att ELSE [att EXCEPT ![r.key] = @ + 1]]
        /\ bres' = [bres EXCEPT ![k] = IF ended THEN r.kind ELSE "running"]
        /\ bmut' = [j \in Callers |->
                      IF j = k
                        THEN ~begin /\ bmut[k]
                        ELSE bmut[j] \/ (pruned /\ bst[j] = "sending")]
        /\ failedDone' = IF ended THEN failedDone \cup r.disc ELSE failedDone

\* --------------------------------------------------- websocket_endpoint

\* Connections are numbered in the order they arrive: c is next when all
\* before it have arrived.
Arrives(c) == ws[c] = "new" /\ \A d \in 1 .. c - 1 : ws[d] # "new"

\* await websocket.accept() returns, the connection is added to the set, and
\* the handler suspends in receive_text.  h is the hash of the new object: no
\* two members of the set have the same one.
Accept(c) ==
    /\ UNCHANGED joyVars
    /\ ~OnCpu
    /\ Arrives(c)
    /\ \E h \in HashOf(c) :
         /\ \A d \in Members(table) : hash[d] # h
         /\ hash' = [hash EXCEPT ![c] = h]
         /\ table' = SetAdd(table, hash', c)
    /\ ws' = [ws EXCEPT ![c] = "receiving"]
    /\ bmut' = Mutated
    /\ UNCHANGED <<ingestVars, buttonVars, bst, bcur, bpos, bused, bdisc, bdata, bsnap,
                   batt, bres, failedDone>>

\* The handshake fails: accept raises and the handler ends before the add.
AcceptFail(c) ==
    /\ UNCHANGED joyVars
    /\ ~OnCpu
    /\ Arrives(c)
    /\ ws' = [ws EXCEPT ![c] = "rejected"]
    /\ UNCHANGED <<table, hash, ingestVars, buttonVars, passVars>>

\* receive_text returns a text message: it is logged and the loop goes on.
ReceiveText(c) ==
    /\ ~OnCpu
    /\ ws[c] = "receiving"
    /\ UNCHANGED vars

\* receive_text raises WebSocketDisconnect: the handler removes the connection,
\* and remove raises KeyError when the connection is not in the set.
Disconnect(c) ==
    /\ UNCHANGED joyVars
    /\ ~OnCpu
    /\ ws[c] = "receiving"
    /\ IF SetHas(table, c)
         THEN /\ table' = SetRemove(table, hash, c)
              /\ hash' = Kept(table', hash)
              /\ ws' = [ws EXCEPT ![c] = "closed"]
              /\ bmut' = Mutated
         ELSE /\ ws' = [ws EXCEPT ![c] = "keyerror"]
              /\ UNCHANGED <<table, hash, bmut>>
    /\ UNCHANGED <<ingestVars, buttonVars, bst, bcur, bpos, bused, bdisc, bdata,
                   bsnap, batt, bres, failedDone>>

\* receive_text raises anything else (a binary frame, a transport error): no
\* except clause matches and the handler ends.
ReceiveError(c) ==
    /\ UNCHANGED joyVars
    /\ ~OnCpu
    /\ ws[c] = "receiving"
    /\ ws' = [ws EXCEPT ![c] = "failed"]
    /\ UNCHANGED <<table, hash, ingestVars, buttonVars, passVars>>

\* ------------------------------------------------- joystick_button_pressed

\* Request bodies: {"pressed": true}, {"pressed": false} and {} (the field is
\* missing).
Bodies == {[has |-> TRUE, pressed |-> TRUE], [has |-> TRUE, pressed |-> FALSE],
           [has |-> FALSE, pressed |-> FALSE]}

\* JoystickButton: the body is valid when it has the field pressed.
ValidBody(body) == body.has

ButtonPayload(body) == [type |-> "joystick_button", pressed |-> body.pressed]

\* The handler acknowledges although the sends of broadcast are pending
\* (broadcast scheduled, not awaited).
ResponseUnawaited(kind) ==
    CASE kind = "return" -> "ok"
      [] kind = "raise" -> "error"
      [] kind = "send" -> "ok"

\* The handler awaits broadcast and then returns {"status": "ok", ...}; an
\* exception out of broadcast ends the request with a server error.
ResponseAfter(kind) ==
    CASE kind = "return" -> "ok"
      [] kind = "raise" -> "error"
      [] kind = "send" -> "pending"

\* A request arrives.  An invalid body is rejected before the handler runs; a
\* valid one starts broadcast, which runs up to its first send.
Submit(body) ==
    /\ UNCHANGED joyVars
    /\ ~OnCpu
    /\ bst["button"] = "idle"
    /\ nSubmitted < MaxButtons
    /\ nSubmitted' = nSubmitted + 1
    /\ IF ValidBody(body)
         THEN LET r == BroadcastBegin(table, hash)
              IN  /\ Advance("button", r, TRUE, ButtonPayload(body))
                  /\ resp' = ResponseAfter(r.kind)
         ELSE /\ resp' = "rejected"
              /\ UNCHANGED <<table, hash, passVars>>
    /\ UNCHANGED <<ws, ingestVars>>

\* ------------------------------------------------------- read_arduino_data

\* Which handler an exception raised in the inner try reaches, as the place
\* the task goes to: without the inner except clauses a bad line would end the
\* task through the outer ones.
AfterLineOuter(kind) ==
    CASE kind = "empty" -> "poll"
      [] kind \in {"JSONDecodeError", "AttributeError"} -> "closed"
      [] kind = "SerialException" -> "closed"
      [] kind = "ok" -> "bcast"

\* Every line read ends in a broadcast, whatever became of it (the broadcast
\* placed in a finally clause).
AfterLineAlways(kind) ==
    CASE kind = "empty" -> "poll"
      [] kind \in {"JSONDecodeError", "AttributeError"} -> "bcast"
      [] kind = "SerialException" -> "sleep"
      [] kind = "ok" -> "bcast"

\* Where the task goes after the body of the inner try: an empty line
\* continues the loop at once; an exception is caught by the inner except
\* clauses, logged, and the task sleeps; a record is broadcast.
AfterLine(kind) ==
    CASE kind = "empty" -> "poll"
      [] kind \in {"JSONDecodeError", "AttributeError"} -> "sleep"
      [] kind = "SerialException" -> "sleep"
      [] kind = "ok" -> "bcast"

\* broadcast is started and left to run on its own: the task goes on to its
\* sleep while the sends are pending.
AfterBroadcastUnawaited(kind) == "sleep"

\* Where the task stands after a step of its broadcast: it waits in await
\* broadcast while a send is pending; when broadcast has returned, or raised
\* (the exception is caught by the inner except clause), it goes to its sleep.
AfterBroadcast(kind) == IF kind = "send" THEN "bcast" ELSE "sleep"

\* The task does not return when no port is found: it goes on to open the
\* serial connection.
IngestStartOpensAnyway ==
    /\ UNCHANGED joyVars
    /\ ipc = "start"
    /\ \E ports \in PortLists :
         /\ device' = find_arduino_port(ports)
         /\ \/ ipc' = "settle"
            \/ ipc' = "closed"
    /\ UNCHANGED <<table, connVars, linesRead, faulted, lastKind, prevKind, nTelemetry,
                   lastRaw, buttonVars, passVars>>

\* The task enters its loop right after the open, with no settle delay and no
\* reset of the input buffer.
IngestStartNoFlush ==
    /\ UNCHANGED joyVars
    /\ ipc = "start"
    /\ \E ports \in PortLists :
         /\ device' = find_arduino_port(ports)
         /\ IF device' = ""
              THEN ipc' = "notfound"
              ELSE \/ ipc' = "poll"
                   \/ ipc' = "closed"
    /\ UNCHANGED <<table, connVars, linesRead, faulted, lastKind, prevKind, nTelemetry,
                   lastRaw, buttonVars, passVars>>

\* The task starts: the port is looked up and opened, and the task sleeps for
\* the settle delay.  Without a port it returns; a failing open ends it.
IngestStart ==
    /\ UNCHANGED joyVars
    /\ ipc = "start"
    /\ \E ports \in PortLists :
         /\ device' = find_arduino_port(ports)
         /\ IF device' = ""
              THEN ipc' = "notfound"
              ELSE \/ ipc' = "settle"
                   \/ ipc' = "closed"
    /\ UNCHANGED <<table, connVars, linesRead, faulted, lastKind, prevKind, nTelemetry,
                   lastRaw, buttonVars, passVars>>

\* After the settle delay the input buffer is reset and the loop is entered;
\* a fault in reset_input_buffer ends the task.
IngestFlush ==
    /\ UNCHANGED joyVars
    /\ ipc = "settle"
    /\ \/ ipc' = "poll" /\ UNCHANGED faulted
       \/ ipc' = "closed" /\ faulted' = TRUE
    /\ UNCHANGED <<table, connVars, device, linesRead, lastKind, prevKind, nTelemetry,
                   lastRaw, buttonVars, passVars>>

\* ser.in_waiting is read, on waking from the sleep or right after an empty
\* line: a fault ends the task through the outer except clauses, no data
\* sends it to sleep, data sends it on to readline.
IngestPoll ==
    /\ UNCHANGED joyVars
    /\ ipc \in {"sleep", "poll"}
    /\ \/ ipc' = "closed" /\ faulted' = TRUE
       \/ ipc' = "sleep" /\ UNCHANGED faulted
       \/ linesRead < MaxLines /\ ipc' = "read" /\ UNCHANGED faulted
    /\ UNCHANGED <<table, connVars, device, linesRead, lastKind, prevKind, nTelemetry,
                   lastRaw, buttonVars, passVars>>

\* ser.readline() raises: the fault is caught inside the loop.
IngestReadFault ==
    /\ UNCHANGED joyVars
    /\ ipc = "read"
    /\ ipc' = AfterLine("SerialException")
    /\ faulted' = TRUE
    /\ UNCHANGED <<table, connVars, device, linesRead, lastKind, prevKind, nTelemetry,
                   lastRaw, buttonVars, passVars>>

\* ser.readline() returns a line, which is decoded and, when it is a record,
\* broadcast: broadcast runs up to its first send.
IngestRead(raw) ==
    /\ UNCHANGED joyVars
    /\ ipc = "read"
    /\ linesRead' = linesRead + 1
    /\ lastRaw' = raw
    /\ LET p == ProcessLine(raw)
       IN  /\ lastKind' = p.kind
           /\ prevKind' = lastKind
           /\ IF AfterLine(p.kind) = "bcast"
                THEN LET r == BroadcastBegin(table, hash)
                     IN  /\ Advance("ingest", r, TRUE, p.data)
                         /\ nTelemetry' = nTelemetry + 1
                         /\ ipc' = AfterBroadcast(r.kind)
                ELSE /\ ipc' = AfterLine(p.kind)
                     /\ UNCHANGED <<table, hash, passVars, nTelemetry>>
    /\ UNCHANGED <<ws, device, faulted, buttonVars>>

\* ---------------------------------------------------- the end of a send

\* The pending send_json of caller k's pass ends, well or not, and the pass
\* runs on to its next send or to its end; then the caller goes on: the
\* ingestion task sleeps (an exception out of broadcast is caught by the inner
\* except clause), the button handler answers.
SendDone(k, ok) ==
    /\ UNCHANGED joyVars
    /\ ~OnCpu
    /\ bst[k] = "sending"
    /\ LET r == BroadcastResume(table, hash, bpos[k], bused[k], bdisc[k], bcur[k], ok)
       IN  /\ Advance(k, r, FALSE, bdata[k])
           /\ IF k = "ingest"
                THEN /\ ipc' = AfterBroadcast(r.kind)
                     /\ UNCHANGED resp
                ELSE /\ resp' = ResponseAfter(r.kind)
                     /\ UNCHANGED ipc
    /\ UNCHANGED <<ws, device, linesRead, faulted, lastKind, prevKind, nTelemetry,
                   lastRaw, nSubmitted>>

\* ------------------------------------------------------ the joystick reader

\* The levels GPIO.input returns: the pin is pulled up, HIGH (1) at rest and
\* LOW (0) while the button is held.
PinLevels == {0, 1}

\* What a POST of the button event comes to: status 200, another status, or a
\* RequestException (refused, timed out after 0.5 s); each is logged and
\* send_button_press returns.
PostOutcomes == {"200", "status", "RequestException"}

\* The event is sent whenever the pin is LOW and no press is on record,
\* whatever the level sampled before.
PollStepLevel(last, pressed, cur) ==
    IF cur = 0 /\ ~pressed
      THEN [send |-> TRUE, pressed |-> TRUE]
      ELSE IF cur = 1 /\ pressed
        THEN [send |-> FALSE, pressed |-> FALSE]
        ELSE [send |-> FALSE, pressed |-> pressed]

\* One iteration of the polling loop on the level cur: whether
\* send_button_press is called, and button_pressed afterwards.
PollStep(last, pressed, cur) ==
    IF last = 1 /\ cur = 0 /\ ~pressed
      THEN [send |-> TRUE, pressed |-> TRUE]
      ELSE IF cur = 1 /\ pressed
        THEN [send |-> FALSE, pressed |-> FALSE]
        ELSE [send |-> FALSE, pressed |-> pressed]

\* main: setup_gpio, then the first sample of the pin; an exception of the
\* setup ends the program.
JoystickSetup ==
    /\ jpc = "setup"
    /\ \/ \E cur \in PinLevels :
            /\ last_state' = cur
            /\ jpc' = "loop"
       \/ /\ jpc' = "done"
          /\ UNCHANGED last_state
    /\ button_pressed' = FALSE
    /\ UNCHANGED <<table, connVars, ingestVars, buttonVars, passVars, jpost, jpolls, jsent>>

\* One iteration of the polling loop: the pin is sampled, the event is posted
\* on a press, and the sample is kept as last_state.
JoystickPoll(cur, outcome) ==
    /\ jpc = "loop"
    /\ jpolls < MaxPolls
    /\ LET r == PollStep(last_state, button_pressed, cur)
       IN  /\ button_pressed' = r.pressed
           /\ jsent' = IF r.send THEN jsent + 1 ELSE jsent
           /\ jpost' = IF r.send THEN outcome ELSE jpost
    /\ last_state' = cur
    /\ jpolls' = jpolls + 1
    /\ UNCHANGED <<table, connVars, ingestVars, buttonVars, passVars, jpc>>

\* Ctrl+C, or an exception of GPIO.input: the loop is left and the GPIO is
\* cleaned up.
JoystickStop ==
    /\ jpc = "loop"
    /\ jpc' = "done"
    /\ UNCHANGED <<table, connVars, ingestVars, buttonVars, passVars, last_state,
                   button_pressed, jpost, jpolls, jsent>>

\* ------------------------------------------------------- specifications

Next ==
    \/ \E c \in Conns : Accept(c)
    \/ \E c \in Conns : AcceptFail(c)
    \/ \E c \in Conns : ReceiveText(c)
    \/ \E c \in Conns : Disconnect(c)
    \/ \E c \in Conns : ReceiveError(c)
    \/ \E body \in Bodies : Submit(body)
    \/ IngestStart
    \/ IngestFlush
    \/ IngestPoll
    \/ IngestReadFault
    \/ \E raw \in Lines : IngestRead(raw)
    \/ \E k \in Callers, ok \in BOOLEAN : SendDone(k, ok)

Spec == Init /\ [][Next]_vars

\* The button endpoint and the websocket handlers, without the ingestion task
\* (no device is attached).
NextButton ==
    \/ \E c \in ButtonConns : Accept(c)
    \/ \E c \in ButtonConns : AcceptFail(c)
    \/ \E c \in ButtonConns : ReceiveText(c)
    \/ \E c \in ButtonConns : Disconnect(c)
    \/ \E c \in ButtonConns : ReceiveError(c)
    \/ \E body \in Bodies : Submit(body)
    \/ \E ok \in BOOLEAN : SendDone("button", ok)

SpecButton == Init /\ [][NextButton]_vars

\* The ingestion task and the websocket handlers, without button requests.
NextIngest ==
    \/ \E c \in IngestConns : Accept(c)
    \/ \E c \in IngestConns : AcceptFail(c)
    \/ \E c \in IngestConns : ReceiveText(c)
    \/ \E c \in IngestConns : Disconnect(c)
    \/ \E c \in IngestConns : ReceiveError(c)
    \/ IngestStart
    \/ IngestFlush
    \/ IngestPoll
    \/ IngestReadFault
    \/ \E raw \in Lines : IngestRead(raw)
    \/ \E ok \in BOOLEAN : SendDone("ingest", ok)

SpecIngest == Init /\ [][NextIngest]_vars

\* Connections coming and going around button requests: enough of them for
\* the set's table to be rebuilt.
NextHub ==
    \/ \E c \in HubConns : Accept(c)
    \/ \E c \in HubConns : Disconnect(c)
    \/ \E body \in Bodies : Submit(body)
    \/ \E ok \in BOOLEAN : SendDone("button", ok)

SpecHub == Init /\ [][NextHub]_vars

\* The ingestion task fed with the lines of the codec, and one subscriber.
NextCodec ==
    \/ \E c \in CodecConns : Accept(c)
    \/ IngestStart
    \/ IngestFlush
    \/ IngestPoll
    \/ IngestReadFault
    \/ \E raw \in CodecLines : IngestRead(raw)
    \/ \E ok \in BOOLEAN : SendDone("ingest", ok)

SpecCodec == Init /\ [][NextCodec]_vars

\* The joystick reader on its own.
NextJoystick ==
    \/ JoystickSetup
    \/ \E cur \in PinLevels, outcome \in PostOutcomes : JoystickPoll(cur, outcome)
    \/ JoystickStop

SpecJoystick == Init /\ [][NextJoystick]_vars

\* ------------------------------------------------------------ properties

\* The latest pass of caller k has ended, by a return or by an exception.
Ended(k) == bres[k] \in {"return", "raise"}

\* In this step the pass of caller k starts a send.
SendStarts(k) == bst'[k] = "sending" /\ (bst[k] = "idle" \/ bpos'[k] # bpos[k])

\* In this step the handler of c processes a disconnect.
DisconnectOf(c) == ws[c] = "receiving" /\ ws'[c] \in {"closed", "keyerror"}

\* In this step the ingestion task reads a line.
ReadsLine == linesRead' = linesRead + 1

BadLine == {"JSONDecodeError", "AttributeError"}

\* C1: a pass that has ended attempted a send to every subscriber that was
\* registered when it began (and, at the least, to each of them that is still
\* registered), whatever connections registered or unregistered during its
\* sends.
C1_AttemptsEverySubscriber ==
    \A k \in Callers :
        Ended(k) => \A c \in bsnap[k] \cap Members(table) : batt[k][c] >= 1

\* C2: broadcast returns normally, no exception escapes it, whatever registers
\* or unregisters while it is in flight.
C2_BroadcastReturns == \A k \in Callers : bres[k] # "raise"

\* C3: the disconnect of a subscriber that a broadcast has already pruned is a
\* no-op: the handler ends without an error and the set is unchanged.
C3_RemovalIdempotent ==
    [][\A c \in AllConns :
          (DisconnectOf(c) /\ ~SetHas(table, c)) => (ws'[c] = "closed" /\ table' = table)]_vars

\* C4: a pass during which no other task changed the set runs to its end
\* whichever sends fail: it returns, with a send attempted to every subscriber
\* registered when it began.
C4_FailureDoesNotStopPass ==
    \A k \in Callers :
        (Ended(k) /\ ~bmut[k]) =>
            (bres[k] = "return" /\ \A c \in bsnap[k] : batt[k][c] >= 1)

\* A pass over three subscribers, undisturbed, in which some but not all sends
\* failed, has returned with every subscriber attempted.
C4_Witness ==
    \E k \in Callers :
        /\ bres[k] = "return" /\ ~bmut[k]
        /\ Cardinality(bsnap[k]) = 3
        /\ bdisc[k] # {} /\ bdisc[k] # bsnap[k]
        /\ \A c \in bsnap[k] : batt[k][c] = 1

\* C5: every subscriber whose send failed in a pass is out of the set once the
\* pass has ended, no send to it starts after that, and the set is not changed
\* by the pass while it iterates.
C5_FailedArePruned ==
    [][/\ failedDone' \cap Members(table') = {}
       /\ \A k \in Callers : SendStarts(k) => bcur'[k] \notin failedDone
       /\ \A k \in Callers :
            (bst[k] = "sending" /\ bst'[k] = "sending" /\ bpos'[k] # bpos[k]) =>
                table' = table]_vars

\* C6: after an I/O fault on the open serial connection the ingestion task
\* reads no further line, begins no further broadcast and does not reopen the
\* device.
C6_FaultEndsIngestion ==
    [][faulted =>
          /\ ~ReadsLine
          /\ (bres'["ingest"] = "running" => bres["ingest"] = "running")
          /\ ipc' \notin {"start", "settle"}]_vars

\* C7: a line that fails to parse, or parses to a value that is no object,
\* leaves the ingestion loop running, and the valid line read after it is
\* decoded and broadcast to the subscribers.
C7_MalformedLineContinues ==
    [][/\ (ReadsLine /\ lastKind' \in BadLine) => ipc' = "sleep"
       /\ (ReadsLine /\ lastKind \in BadLine /\ lastKind' = "ok") =>
             /\ bres'["ingest"] \in {"running", "return"}
             /\ bsnap'["ingest"] = Members(table)
             /\ (Members(table) # {} =>
                   /\ ipc' = "bcast"
                   /\ bdata'["ingest"] \in {ProcessLine(l).data : l \in Lines})]_vars

\* The line before the last was malformed, the last one was valid and its
\* record is being sent to a subscriber.
C7_Witness ==
    /\ prevKind \in BadLine /\ lastKind = "ok"
    /\ ipc = "bcast" /\ bst["ingest"] = "sending"
    /\ bdata["ingest"] # NoData

\* C8: a valid button event is answered with ok, its payload is the tagged
\* button payload, and every subscriber registered when the broadcast began has
\* been sent it exactly once, whatever connects, disconnects or fails
\* meanwhile.
C8_ButtonBroadcastAndAck ==
    /\ resp # "error"
    /\ bst["button"] = "sending" =>
          bdata["button"] \in {ButtonPayload(b) : b \in {x \in Bodies : ValidBody(x)}}
    /\ resp = "ok" =>
          \A c \in bsnap["button"] \cap Members(table) : batt["button"][c] = 1

\* C9, as stated: the acknowledgment does not wait for the sends: while a send
\* of the button event is pending, the request has been acknowledged.
C9_AckBeforeSends == bst["button"] = "sending" => resp = "ok"

\* C9, amended: the acknowledgment is returned only after broadcast has
\* returned: when the request is acknowledged, no send of its event is pending.
C9_AckAfterBroadcast ==
    resp = "ok" => (bst["button"] = "idle" /\ bres["button"] = "return")

\* A request acknowledged after its event was sent to two subscribers.
C9_Witness ==
    /\ resp = "ok" /\ bres["button"] = "return"
    /\ Cardinality({c \in AllConns : batt["button"][c] >= 1}) >= 2

\* C10: within one pass no subscriber is sent the message more than once.
C10_AtMostOncePerPass == \A k \in Callers, c \in AllConns : batt[k][c] <= 1

\* C11: the ingestion task calls broadcast exactly once for a line read that
\* decodes to a record, with that record, and not at all for a line that is
\* empty after trimming or does not parse; no other step of the program makes
\* a telemetry broadcast.
C11_OneBroadcastPerRecord ==
    [][/\ \A raw \in Lines :
            IngestRead(raw) =>
              /\ nTelemetry' = nTelemetry + (IF ProcessLine(raw).kind = "ok" THEN 1 ELSE 0)
              /\ (ProcessLine(raw).kind # "ok" =>
                    (bst'["ingest"] = "idle" /\ bres'["ingest"] = bres["ingest"]))
              /\ (bst'["ingest"] = "sending" => bdata'["ingest"] = ProcessLine(raw).data)
       /\ (~ReadsLine => nTelemetry' = nTelemetry)]_vars

\* Two lines were read, the first one empty or unparsable, and the one
\* broadcast of the run is that of the second line, now being sent.
C11_Witness ==
    /\ linesRead = 2 /\ nTelemetry = 1
    /\ prevKind \in {"empty", "JSONDecodeError"} /\ lastKind = "ok"
    /\ bst["ingest"] = "sending"

\* The ingestion task has ended: no device was found, or the loop was left on
\* a fault.
IngestEnded == ipc \in {"notfound", "closed"}

\* C12: without a matching device the ingestion task ends at once: it opens no
\* serial connection, reads no line and broadcasts no telemetry, ever.  Once
\* the task has ended, for that reason or on a device fault, the next
\* connection can still be accepted and joins the subscriber set, a button
\* request can still be served, and a valid button event starts a broadcast of
\* its payload over the subscribers of that moment, which reaches all of them
\* when no connection comes or goes meanwhile.
C12_ServesWithoutIngestion ==
    /\ [](IngestEnded =>
            /\ \A c \in Conns : Arrives(c) => ENABLED Accept(c)
            /\ (bst["button"] = "idle" /\ nSubmitted < MaxButtons) =>
                  \A body \in Bodies : ENABLED Submit(body))
    /\ [][/\ (ipc = "start" /\ ipc' # "start" /\ device' = "") => ipc' = "notfound"
          /\ ipc = "notfound" =>
                (ipc' = "notfound" /\ device' = "" /\ linesRead' = 0 /\ nTelemetry' = 0)
          /\ IngestEnded =>
                /\ nTelemetry' = nTelemetry
                /\ \A c \in AllConns :
                      (Arrives(c) /\ ws'[c] = "receiving") => c \in Members(table')
                /\ \A body \in Bodies :
                      (ValidBody(body) /\ Submit(body)) =>
                        /\ bsnap'["button"] = Members(table)
                        /\ Members(table) # {} =>
                              /\ bst'["button"] = "sending"
                              /\ bcur'["button"] \in Members(table)
                              /\ bdata'["button"] = ButtonPayload(body)
                /\ (bres'["button"] \in {"return", "raise"} /\ ~bmut'["button"]) =>
                      (bres'["button"] = "return"
                       /\ \A c \in bsnap'["button"] : batt'["button"][c] >= 1)]_vars

\* No device was found, and a button event has been sent to two subscribers
\* and acknowledged.
C12_Witness ==
    /\ ipc = "notfound" /\ device = "" /\ nTelemetry = 0
    /\ resp = "ok" /\ bres["button"] = "return"
    /\ Cardinality({c \in AllConns : batt["button"][c] = 1}) = 2

\* C13: a send of a telemetry record that fails is caught in broadcast: the
\* subscriber is marked, the pass goes on (it raises only when the set was
\* changed meanwhile) and the ingestion task stays in its loop; a pass that
\* returned has pruned its failed subscribers, and the next record read is
\* broadcast over the subscribers that remain.
C13_SendFailureContained ==
    [][/\ SendDone("ingest", FALSE) =>
            /\ ipc' \in {"bcast", "sleep"}
            /\ bcur["ingest"] \in bdisc'["ingest"]
            /\ (bres'["ingest"] = "raise" => bmut["ingest"])
            /\ (bres'["ingest"] = "return" => bcur["ingest"] \notin Members(table'))
       /\ (ReadsLine /\ lastKind' = "ok" /\ bres["ingest"] = "return") =>
            /\ bsnap'["ingest"] = Members(table)
            /\ bsnap'["ingest"] \cap bdisc["ingest"] = {}
            /\ (Members(table) # {} => bst'["ingest"] = "sending")]_vars

\* The send of the first record to one subscriber failed and that subscriber
\* was pruned; the second record is being sent to the other subscriber.
C13_Witness ==
    /\ linesRead = 2 /\ prevKind = "ok" /\ lastKind = "ok" /\ nTelemetry = 2
    /\ failedDone # {} /\ failedDone \cap Members(table) = {}
    /\ bst["ingest"] = "sending" /\ bcur["ingest"] \notin failedDone

RecordFields == {"temperature_c", "humidity", "brightness", "sound", "intruder", "fire"}
NumericFields == {"temperature_c", "humidity", "brightness", "sound"}

\* The keys the text of a line gives a value to.
KeysOf(s) == {s[k] : k \in {j \in 1 .. Len(s) - 1 : s[j] \in StringTokens /\ s[j + 1] = ":"}}

\* C14: the record of a telemetry broadcast has the six fields and no other;
\* its numeric fields are numbers or null, intruder and fire are booleans, and
\* false when the line read has no such key.
C14_RecordShape ==
    bdata["ingest"] # NoData =>
        LET r == bdata["ingest"]
        IN  /\ DOMAIN r = RecordFields
            /\ \A f \in NumericFields : r[f].k \in {"num", "null"}
            /\ r.intruder.k = "bool" /\ r.fire.k = "bool"
            /\ ("intruder" \notin KeysOf(lastRaw) => r.intruder = JsonFalse)
            /\ ("fire" \notin KeysOf(lastRaw) => r.fire = JsonFalse)

\* The token before position k of s that is not whitespace (0: none).
RECURSIVE PrevToken(_, _)
PrevToken(s, k) ==
    IF k <= 1 THEN 0 ELSE IF s[k - 1] \in Whitespace THEN PrevToken(s, k - 1) ELSE k - 1

\* The nan at position k of s is directly followed by ',' or '}'.
NanDelimited(s, k) == s[k] = "nan" /\ k < Len(s) /\ s[k + 1] \in {",", "}"}

\* The nan at position k of s is the value of a numeric field.
NanOfNumericField(s, k) ==
    LET c == PrevToken(s, k)
        n == IF c = 0 THEN 0 ELSE PrevToken(s, c)
    IN  c # 0 /\ s[c] = ":" /\ n # 0 /\ s[n] \in NumericFields

\* The substitution as the specification words it: nan directly followed by
\* ',' or '}' reads as null.
NanAsNull(s) == [k \in 1 .. Len(s) |-> IF NanDelimited(s, k) THEN "null" ELSE s[k]]

\* A line that is a valid object but for nan, directly followed by ',' or '}',
\* as the value of some of its numeric fields.
NanLine(raw) ==
    LET s == Strip(DecodeUtf8(raw))
        at == {k \in 1 .. Len(s) : s[k] = "nan"}
    IN  /\ at # {}
        /\ \A k \in at : NanDelimited(s, k) /\ NanOfNumericField(s, k)
        /\ JsonLoads(NanAsNull(s)).ok
        /\ JsonLoads(NanAsNull(s)).val.k = "obj"

\* C15: a line that is a valid object but for nan values of numeric fields,
\* each directly followed by ',' or '}', is not discarded: it decodes to the
\* record of the same line with null in place of each nan.
C15_NanBecomesAbsent ==
    (linesRead > 0 /\ NanLine(lastRaw)) =>
        /\ lastKind = "ok"
        /\ bdata["ingest"] # NoData =>
              bdata["ingest"] = FilteredData(JsonLoads(NanAsNull(Strip(DecodeUtf8(lastRaw)))).val)

\* The places of the ingestion task inside its while loop.
InLoop == {"poll", "read", "sleep", "bcast"}

\* C16: the ingestion task enters its loop only from the settle delay, by the
\* reset of the input buffer, and the settle delay only from the open; until
\* then no line is read and no telemetry broadcast; the task never returns to
\* the open or the settle delay, so the reset happens once.
C16_FlushBeforeFirstRead ==
    [][/\ (ipc' = "settle" /\ ipc # "settle") => (ipc = "start" /\ device' # "")
       /\ (ipc' \in InLoop /\ ipc \notin InLoop) => ipc = "settle"
       /\ (ipc = "settle" /\ ipc' # "settle") => ipc' \in {"poll", "closed"}
       /\ ipc \in {"start", "settle"} =>
             (~ReadsLine /\ linesRead' = 0 /\ nTelemetry' = 0 /\ bres'["ingest"] = "none")
       /\ ipc # "start" => ipc' \notin {"start", "settle"} \/ ipc' = ipc]_vars

\* The device was opened and, after the reset, a first line was read and its
\* record is being sent.
C16_Witness ==
    /\ device # "" /\ linesRead = 1 /\ lastKind = "ok" /\ nTelemetry = 1
    /\ ipc = "bcast" /\ bst["ingest"] = "sending"

\* C17: every member of the subscriber set is a connection whose handshake was
\* accepted and whose handler is still running (suspended in receive_text).
C17_OnlyLiveSubscribers == \A c \in Members(table) : ws[c] = "receiving"

\* C18: after every line it reads, whatever the line, the ingestion task
\* suspends (in the send of a broadcast or in its sleep) before it polls and
\* reads again, so other tasks can run between two reads.
C18_YieldsBetweenReads == [][ReadsLine => ipc' \in {"bcast", "sleep"}]_vars

\* C19: the ingestion task reads a line, and begins a telemetry broadcast,
\* only when its previous broadcast has ended: it waits in the broadcast while
\* a send is pending, and the record being sent is always that of the last
\* line read, so every subscriber gets the records in the order of the lines.
C19_TelemetryInOrder ==
    /\ [](bst["ingest"] = "sending" =>
            (ipc = "bcast" /\ bdata["ingest"] = ProcessLine(lastRaw).data))
    /\ [][/\ ReadsLine => bst["ingest"] = "idle"
          /\ nTelemetry' # nTelemetry => (ReadsLine /\ bst["ingest"] = "idle")]_vars

\* Two records were read and broadcast one after the other, no send failed,
\* and the second record is now being sent with two subscribers registered.
C19_Witness ==
    /\ linesRead = 2 /\ nTelemetry = 2 /\ prevKind = "ok" /\ lastKind = "ok"
    /\ Cardinality(Members(table)) = 2 /\ failedDone = {}
    /\ bst["ingest"] = "sending" /\ ipc = "bcast"

\* C20: an iteration of the polling loop sends one event exactly when the
\* level sampled before was HIGH and the one sampled now is LOW; no other step
\* sends one.  Hence none is sent while the pin stays LOW, none when the pin is
\* LOW at the first sample, and none again before HIGH has been sampled.
C20_OneEventPerPress ==
    [][/\ jsent' \in {jsent, jsent + 1}
       /\ jsent' = jsent + 1 <=>
             (jpc = "loop" /\ jpolls' = jpolls + 1 /\ last_state = 1 /\ last_state' = 0)
       /\ (jsent' = jsent + 1 => (~button_pressed /\ button_pressed'))]_vars

\* Two presses have been sent, and the pin has been sampled LOW for some
\* iterations after the second.
C20_Witness ==
    /\ jpc = "loop" /\ jsent = 2 /\ jpolls >= 6
    /\ last_state = 0 /\ button_pressed

====
